---- MODULE Spec2Model ----
(***************************************************************************)
(* Device emulator: the per-device sqlite store behind Device.cursor, the  *)
(* binary query server of CustomEventProtoDevice, the webhook delivery of  *)
(* WebhookDevice and the control-plane dispatcher EventSocketServer.       *)
(*                                                                         *)
(* Greenlets are cooperative: a step of the model is the code between two  *)
(* blocking points (accept, recv, requests.post, sleep).  sqlite3 calls do *)
(* not yield, so a `with self.cursor()` section is inside one step.        *)
(***************************************************************************)
EXTENDS Integers, Sequences, FiniteSets, TLC

(* ------------------------------- bounds -------------------------------- *)
\* control-plane connections the dispatcher accepts in one behaviour
MaxRequests == 2
\* store faults (a statement or a commit raising) in one behaviour
MaxFaults == 1
\* collector connections the pull device serves at the same time
MaxConns == 1
\* collector connections the pull device accepts in one behaviour
MaxAccepts == 1
\* subscribe requests to the push device in one behaviour
MaxSubscribes == 2
\* largest retries value a control-plane request carries
MaxRetries == 2
\* cap of the counters of a delivery loop that never ends
MaxAttempts == 4

(* -------------------------- program constants -------------------------- *)
\* sleep(5) between two POST attempts
RetryDelay == 5
\* Temperature._value range, in tenths of a degree
TempMin == -500
TempMax == 500

\* b'\xde\xad\xbe\xef'
MAGIC == <<222, 173, 190, 239>>

(* ------------------------------ configuration -------------------------- *)
\* config.yaml: device name -> type
Names == {"temp", "end"}
DeviceType == [temp |-> "temperature", end |-> "end"]
\* device_map: the pull classes derive from CustomEventProtoDevice, the push
\* classes from WebhookDevice
IsPull(d) == DeviceType[d] \in {"temperature", "keyboard"}
IsPush(d) == DeviceType[d] \in {"mass", "end"}

None == "None"

(* --------------------------- value coercion ---------------------------- *)
RawValues == {"250", "press"}

\* int(value): the decimal literals among the raw values
IsIntLiteral(raw) == raw \in {"250", "9999"}
IntOf(raw) == IF raw = "9999" THEN 9999 ELSE 250

\* Temperature._value, Keyboard._value, End._value:
\* [ok] is FALSE when the method raises ValueError
ValueOf(type, raw) ==
    CASE type = "temperature" ->
           IF ~IsIntLiteral(raw) THEN [ok |-> FALSE, type |-> "none"]
           ELSE IF IntOf(raw) < TempMin \/ IntOf(raw) > TempMax
                THEN [ok |-> FALSE, type |-> "none"]
                ELSE [ok |-> TRUE, type |-> "float"]
      [] type = "keyboard" -> [ok |-> TRUE, type |-> "str"]
      [] type = "end" ->
           IF raw \notin {"press", "release"}
           THEN [ok |-> FALSE, type |-> "none"]
           ELSE [ok |-> TRUE, type |-> "str"]
      [] OTHER -> [ok |-> FALSE, type |-> "none"]

\* len(value.encode('utf8')) of the raw values
Utf8Len(raw) == IF raw = "250" THEN 3 ELSE 5

(* ------------------------------ the store ------------------------------ *)
\* the tables of one device's sqlite file
EmptyTables == [events |-> <<>>, subscription |-> <<>>, event_id |-> <<>>]

RECURSIVE MaxId(_)
MaxId(rows) ==
    IF rows = <<>> THEN 0
    ELSE LET m == MaxId(Tail(rows)) IN IF Head(rows).id > m THEN Head(rows).id ELSE m

\* id integer primary key AUTOINCREMENT: rows are never deleted, so the next
\* rowid is the largest one the connection sees plus one
NextRowId(rows) == MaxId(rows) + 1

\* INSERT INTO events (ts, value) VALUES (?, ?) with (ts, str(value))
InsertEvent(tables, ts, value) ==
    [tables EXCEPT !.events =
        Append(@, [id |-> NextRowId(tables.events), ts |-> ts, value |-> value])]

Faults == {"none", "statement", "commit_busy", "commit_rollback"}

(* --------------------------- byte sequences ---------------------------- *)
RECURSIVE FromBytes(_)
\* int.from_bytes(b, 'big')
FromBytes(b) ==
    IF b = <<>> THEN 0
    ELSE FromBytes(SubSeq(b, 1, Len(b) - 1)) * 256 + b[Len(b)]

RECURSIVE ToBytes(_, _)
\* n.to_bytes(w, 'big') for 0 <= n < 256^w
ToBytes(n, w) ==
    IF w = 0 THEN <<>> ELSE Append(ToBytes(n \div 256, w - 1), n % 256)

VARIABLES
    devices,        \* listen.py devices: the configured device names
    db,             \* per device: the committed tables of its sqlite file
    tx,             \* per device: the tables as its connection sees them
                    \* (committed rows and the writes not yet committed)
    callback_url,   \* WebhookDevice.callback_url
    sub,            \* the /subscribe exchange being handled
    lastSub,        \* the callback of the last subscribe answered 200
    pc,             \* where the dispatcher greenlet stands
    data,           \* the request read by EventSocketServer.serve
    local,          \* WebhookDevice.event: event_id, retries, request_error
    conn,           \* the control-plane connection: replies sent, closed
    deliv,          \* the POST attempts of the current event() call
    conns,          \* the collector connections of the pull device
    returned,       \* per device: the ids event() returned, in call order
    nreq,           \* control-plane connections accepted so far
    nfault,         \* store faults so far
    nsub,           \* subscribe requests so far
    nconn,          \* collector connections accepted so far
    lock_db,        \* per device: the counter of BoundedSemaphore(1)
    tasks,          \* listen.py greenlets: the state of each supervised task
    waiting,        \* the request of a client connected to the event socket
                    \* and not yet accepted
    pool            \* executor_pool of the pull device and its connections

vars == <<devices, db, tx, callback_url, sub, lastSub, pc, data, local, conn,
          deliv, conns, returned, nreq, nfault, nsub, nconn, lock_db, tasks,
          waiting, pool>>

(* ------------------------------ Device.cursor -------------------------- *)
\* self.lock_db = BoundedSemaphore(1): the counter is 1 when the lock is free
SemFree == 1
\* lock_db.locked()
Locked(n) == n = 0
\* lock_db.acquire(), which returns when the counter is positive
SemAcquire(n) == n - 1

\* a release placed after the commit, outside any finally
CursorReleaseAfterCommit(n, raised) == IF raised THEN n ELSE n + 1
\* the finally of cursor(): if self.lock_db.locked(): self.lock_db.release();
\* it runs on a normal exit and when the body or the commit raised
CursorRelease(n, raised) == IF Locked(n) THEN n + 1 ELSE n

\* What `with self.cursor() as c:` leaves behind.  `tables` is what the
\* connection sees after the statements of the body that ran, `raised` says
\* whether a statement raised.  An exception passes through the yield: the
\* commit is skipped and nothing rolls the transaction back, so the writes
\* already issued stay pending on the connection.  A commit that raises
\* either leaves the transaction open (SQLITE_BUSY) or has been rolled
\* back by sqlite (SQLITE_FULL, SQLITE_IOERR).
CursorExit(d, tables, raised, fault) ==
    LET held == SemAcquire(lock_db[d])
    IN  IF raised
        THEN [db |-> db[d], tx |-> tables, raised |-> TRUE,
              lock |-> CursorRelease(held, TRUE)]
        ELSE CASE fault = "commit_busy" ->
                    [db |-> db[d], tx |-> tables, raised |-> TRUE,
                     lock |-> CursorRelease(held, TRUE)]
               [] fault = "commit_rollback" ->
                    [db |-> db[d], tx |-> db[d], raised |-> TRUE,
                     lock |-> CursorRelease(held, TRUE)]
               [] OTHER ->
                    [db |-> tables, tx |-> tables, raised |-> FALSE,
                     lock |-> CursorRelease(held, FALSE)]

\* CustomEventProtoDevice.event: INSERT under the cursor, return c.lastrowid
PullEvent(d, ts, value, fault) ==
    LET body == IF fault = "statement" THEN tx[d]
                ELSE InsertEvent(tx[d], ts, value)
        x == CursorExit(d, body, fault = "statement", fault)
    IN  [db |-> x.db, tx |-> x.tx, raised |-> x.raised, lock |-> x.lock,
         id |-> NextRowId(tx[d].events)]

\* WebhookDevice.event, "Get event id": SELECT id FROM event_id, then
\* UPDATE event_id SET id = ? (an UPDATE changes the rows there are)
AllocEventId(d, fault) ==
    LET rows == tx[d].event_id
        event_id == IF rows # <<>> THEN rows[1] + 1 ELSE 1
        body == IF fault = "statement" THEN tx[d]
                ELSE [tx[d] EXCEPT !.event_id = [i \in DOMAIN rows |-> event_id]]
        x == CursorExit(d, body, fault = "statement", fault)
    IN  [db |-> x.db, tx |-> x.tx, raised |-> x.raised, lock |-> x.lock,
         id |-> event_id]

(* ----------------------- control-plane requests ------------------------ *)
TsValues == {1, 2}
RetriesValues == -1 .. MaxRetries
Required == {"dev_name", "ts", "value"}

\* the JSON payloads a client of the event socket sends: [missing] are the
\* keys the object lacks, [mistyped] the keys whose value has the wrong type
Payload(n, t, v, m, r) ==
    [shape |-> "dict", missing |-> m, mistyped |-> {}, dev_name |-> n,
     ts |-> t, value |-> v, retries |-> r]

\* requests with every required key: the pull device and an unknown name with
\* both timestamps (a pull device ignores retries), the push device with
\* every retries value
WellFormed ==
    { Payload(n, t, v, {"retries"}, 0) :
         n \in Names \cup {"ghost"}, t \in TsValues, v \in RawValues }
    \cup { Payload(n, 1, "250", {}, 1) : n \in {"temp", "ghost"} }
    \cup { Payload(n, 1, v, {}, r) :
         n \in {d \in Names : IsPush(d)}, v \in RawValues, r \in RetriesValues }

Malformed ==
    LET b(n) == [shape |-> "dict", missing |-> {"retries"}, mistyped |-> {},
                 dev_name |-> n, ts |-> 1, value |-> "250", retries |-> 0]
    IN  UNION { {[b(n) EXCEPT !.shape = "list"], [b(n) EXCEPT !.shape = "badjson"],
                 [b(n) EXCEPT !.missing = {}, !.mistyped = {"retries"}]}
                \cup {[b(n) EXCEPT !.missing = {f, "retries"}] : f \in Required}
                \cup {[b(n) EXCEPT !.mistyped = {f}] : f \in Required}
                : n \in {"temp", "ghost"} }

Requests == WellFormed \cup Malformed

NoData == [shape |-> "none", missing |-> {}, mistyped |-> {}, dev_name |-> "",
           ts |-> 0, value |-> "", retries |-> 0]

\* EventSocketServer.serve, read_dgram and the asserts: "ok", or the prefix
\* of the message of the error reply
Validate(req) ==
    IF req.shape = "badjson" THEN "json"
    ELSE IF req.shape # "dict" THEN "wrong data received"
    ELSE IF req.missing \cap Required # {} THEN "wrong data received"
    ELSE IF req.mistyped \cap Required # {} THEN "wrong data received"
    ELSE IF "retries" \notin req.missing /\ "retries" \in req.mistyped
         THEN "wrong data received"
    ELSE "ok"

\* if not data['dev_name'] in self.devices
KnownDevice(name) == name \in devices

\* a lookup without the membership test: self.devices[name] raises KeyError,
\* which the except Exception clause reports
LookupFailureKeyError(name) == "Internal error"
\* raise ValueError(f'Unknown device {data["dev_name"]}'), reported by the
\* except ValueError clause with str(err): the prefix of the message
LookupFailure(name) == "Unknown device"

\* kwargs['retries'] when the key is present, else the default retries=0
RetriesArg(req) == IF "retries" \in req.missing THEN 0 ELSE req.retries

\* Device.event receives the raw string of the request; neither event()
\* calls self._value, so no raw value makes it raise ValueError
EventAccepts(d, raw) == TRUE

IdReply(id) == [kind |-> "id", id |-> id, msg |-> ""]
ErrorReply(msg) == [kind |-> "error", id |-> 0, msg |-> msg]

NoLocal == [event_id |-> 0, retries |-> 0, request_error |-> None]
\* what the current event() call on a push device has done: n is its retries
\* argument, url the target of its last POST and first that of its first
\* one, subscribed the callback last subscribed when the last POST was made
NoDeliv == [n |-> 0, attempts |-> 0, sleeps |-> 0, slept |-> 0, last |-> None,
            url |-> None, first |-> None, subscribed |-> None,
            result |-> "none"]

(* ----------------------- EventSocketServer.run/serve ------------------- *)
pushVars == <<callback_url, sub, lastSub, nsub>>
\* what the steps of the devices and of the dispatcher leave alone
restVars == <<tasks, waiting, pool>>
storeVars == <<db, tx, lock_db>>

\* send_dgram of the reply, then the finally: sock.close(); serve returns
\* and run goes back to accept
Finish(reply) ==
    /\ conn' = [state |-> "closed", replies |-> Append(conn.replies, reply)]
    /\ pc' = "accept"
    /\ data' = NoData
    /\ local' = NoLocal

\* run: connection, _ = self.socket.accept(); serve: data = read_dgram(sock)
Accept(req) ==
    /\ pc = "accept"
    /\ pc' = "serve"
    /\ data' = req
    /\ conn' = [state |-> "open", replies |-> <<>>]
    /\ deliv' = NoDeliv
    /\ UNCHANGED local
    /\ UNCHANGED <<devices, storeVars, pushVars, conns, returned, nfault, nconn,
                   tasks, pool>>

\* a client connects while the dispatcher is in accept, and is accepted
DispAccept(req) ==
    /\ nreq < MaxRequests
    /\ nreq' = nreq + 1
    /\ Accept(req)
    /\ UNCHANGED waiting

\* EventSocketClient.event: connect and send_dgram.  The connection sits
\* in the backlog of the listening socket until run accepts it
ClientConnect(req) ==
    /\ waiting = NoData
    /\ nreq < MaxRequests
    /\ nreq' = nreq + 1
    /\ waiting' = req
    /\ UNCHANGED <<devices, storeVars, pushVars, pc, data, local, conn, deliv,
                   conns, returned, nfault, nconn, tasks, pool>>

\* run accepts the connection that waits in the backlog
DispAcceptQueued ==
    /\ waiting # NoData
    /\ Accept(waiting)
    /\ waiting' = NoData
    /\ UNCHANGED nreq

\* a store fault is drawn only where a cursor section runs
FaultAllowed(fault) == fault # "none" => nfault < MaxFaults
CountFault(fault) == nfault' = IF fault = "none" THEN nfault ELSE nfault + 1

\* serve, for a request the asserts reject or that names no device
DispReject ==
    /\ pc = "serve"
    /\ \/ /\ Validate(data) # "ok"
          /\ Finish(ErrorReply(Validate(data)))
       \/ /\ Validate(data) = "ok"
          /\ ~KnownDevice(data.dev_name)
          /\ Finish(ErrorReply(LookupFailure(data.dev_name)))
    /\ UNCHANGED <<devices, restVars, storeVars, pushVars, deliv, conns, returned, nreq,
                   nfault, nconn>>

\* serve -> CustomEventProtoDevice.event -> reply
DispPullEvent(fault) ==
    /\ pc = "serve"
    /\ Validate(data) = "ok"
    /\ KnownDevice(data.dev_name)
    /\ IsPull(data.dev_name)
    /\ FaultAllowed(fault)
    /\ LET d == data.dev_name
           r == PullEvent(d, data.ts, data.value, fault)
       IN  IF ~EventAccepts(d, data.value)
           THEN /\ fault = "none"
                /\ Finish(ErrorReply("Wrong event data format"))
                /\ UNCHANGED <<storeVars, returned, nfault>>
           ELSE /\ ~Locked(lock_db[d])
                /\ db' = [db EXCEPT ![d] = r.db]
                /\ tx' = [tx EXCEPT ![d] = r.tx]
                /\ lock_db' = [lock_db EXCEPT ![d] = r.lock]
                /\ CountFault(fault)
                /\ IF r.raised
                   THEN /\ Finish(ErrorReply("Internal error"))
                        /\ UNCHANGED returned
                   ELSE /\ Finish(IdReply(r.id))
                        /\ returned' = [returned EXCEPT ![d] = Append(@, r.id)]
    /\ UNCHANGED <<devices, restVars, pushVars, deliv, conns, nreq, nconn>>

\* an event() that goes on without a look at the callback
NoSubscriptionUnchecked(d) == FALSE
\* if self.callback_url is None: raise self.EventError('No subscriptions')
NoSubscription(d) == callback_url[d] = None

\* serve -> WebhookDevice.event up to the send loop
DispPushEvent(fault) ==
    /\ pc = "serve"
    /\ Validate(data) = "ok"
    /\ KnownDevice(data.dev_name)
    /\ IsPush(data.dev_name)
    /\ FaultAllowed(fault)
    /\ LET d == data.dev_name
           r == AllocEventId(d, fault)
       IN  IF ~EventAccepts(d, data.value)
           THEN /\ fault = "none"
                /\ Finish(ErrorReply("Wrong event data format"))
                /\ UNCHANGED <<storeVars, deliv, nfault>>
           ELSE IF NoSubscription(d)
           THEN /\ fault = "none"
                /\ Finish(ErrorReply("No subscriptions"))
                /\ UNCHANGED <<storeVars, deliv, nfault>>
           ELSE /\ ~Locked(lock_db[d])
                /\ db' = [db EXCEPT ![d] = r.db]
                /\ tx' = [tx EXCEPT ![d] = r.tx]
                /\ lock_db' = [lock_db EXCEPT ![d] = r.lock]
                /\ CountFault(fault)
                /\ IF r.raised
                   THEN /\ Finish(ErrorReply("Internal error"))
                        /\ UNCHANGED deliv
                   ELSE /\ pc' = "post"
                        /\ local' = [event_id |-> r.id,
                                     retries |-> RetriesArg(data),
                                     request_error |-> None]
                        /\ deliv' = [NoDeliv EXCEPT !.n = RetriesArg(data),
                                                    !.result = "running"]
                        /\ UNCHANGED <<conn, data>>
    /\ UNCHANGED <<devices, restVars, pushVars, conns, returned, nreq, nconn>>

\* a send loop that reads the callback once, before its first turn
PostTargetFirst(d) == IF deliv.attempts = 0 THEN callback_url[d] ELSE deliv.first
\* requests.post(self.callback_url, json=event): the URL is read when the
\* call is made
PostTarget(d) == callback_url[d]

\* if retries == 0: raise self.EventError(request_error)
GiveUp(retries) == retries = 0

Bump(n) == IF n < MaxAttempts THEN n + 1 ELSE n

\* what requests.post does: a response with a 2xx status, one with another
\* status below 400 (a 304, a 3xx without Location), one with a status in
\* 400..599, or a RequestException
PostOutcomes == {"2xx", "3xx", "4xx", "transport"}

\* res.ok: raise_for_status() does not raise, i.e. the status is not in
\* 400..599
ResOk(outcome) == outcome \in {"2xx", "3xx"}

\* one turn of the send loop: the POST and what follows it up to the
\* return, the raise or the sleep(5)
DispPost(outcome) ==
    /\ pc = "post"
    /\ LET d == data.dev_name
           att == [deliv EXCEPT !.attempts = Bump(@), !.last = outcome,
                                !.url = PostTarget(d),
                                !.first = IF deliv.attempts = 0
                                          THEN PostTarget(d) ELSE @,
                                !.subscribed = lastSub[d]]
       IN  IF ResOk(outcome)
           THEN /\ Finish(IdReply(local.event_id))
                /\ returned' = [returned EXCEPT ![d] = Append(@, local.event_id)]
                /\ deliv' = [att EXCEPT !.result = "delivered"]
           ELSE /\ UNCHANGED returned
                /\ IF GiveUp(local.retries)
                   THEN /\ Finish(ErrorReply(outcome))
                        /\ deliv' = [att EXCEPT !.result = "failed"]
                   ELSE /\ pc' = "sleep"
                        /\ local' = [local EXCEPT !.request_error = outcome]
                        /\ deliv' = att
                        /\ UNCHANGED <<conn, data>>
    /\ UNCHANGED <<devices, restVars, storeVars, pushVars, conns, nreq, nfault, nconn>>

\* sleep(5) is over: retries -= 1 and the loop turns
DispWake ==
    /\ pc = "sleep"
    /\ pc' = "post"
    /\ local' = [local EXCEPT !.retries =
                    IF @ - 1 < -MaxAttempts THEN @ ELSE @ - 1]
    /\ deliv' = [deliv EXCEPT !.sleeps = Bump(@),
                              !.slept = IF deliv.sleeps < MaxAttempts
                                        THEN @ + RetryDelay ELSE @]
    /\ UNCHANGED <<devices, restVars, storeVars, pushVars, data, conn, conns, returned,
                   nreq, nfault, nconn>>

(* ----------------------- WebhookDevice.run.subscribe ------------------- *)
U1 == "http://a/hook"
U2 == "http://b/hook"
\* the values of request.args.get('callback'); None: no such parameter
CallbackArgs == {None, "not-a-url", "//a/hook", "http:", "http://[", U1, U2}

\* urllib.parse.urlparse on the callbacks above ("http://[" raises
\* ValueError: Invalid IPv6 URL)
UrlParse(cb) ==
    CASE cb = U1 -> [raises |-> FALSE, scheme |-> "http", netloc |-> "a"]
      [] cb = U2 -> [raises |-> FALSE, scheme |-> "http", netloc |-> "b"]
      [] cb = "//a/hook" -> [raises |-> FALSE, scheme |-> "", netloc |-> "a"]
      [] cb = "http:" -> [raises |-> FALSE, scheme |-> "http", netloc |-> ""]
      [] cb = "http://[" -> [raises |-> TRUE, scheme |-> "", netloc |-> ""]
      [] OTHER -> [raises |-> FALSE, scheme |-> "", netloc |-> ""]

\* checks that leave out the one of the host
CheckCallbackNoHost(cb) ==
    IF cb = None THEN "Missing callback param"
    ELSE IF UrlParse(cb).raises THEN "Wrong callback format"
    ELSE IF UrlParse(cb).scheme = "" THEN "Wrong callback format"
    ELSE "ok"
\* the checks of subscribe before it touches the store: "ok", or the body
\* of the 400 response
CheckCallback(cb) ==
    IF cb = None THEN "Missing callback param"
    ELSE IF UrlParse(cb).raises THEN "Wrong callback format"
    ELSE IF UrlParse(cb).scheme = "" THEN "Wrong callback format"
    ELSE IF UrlParse(cb).netloc = "" THEN "Wrong callback format"
    ELSE "ok"

\* self.callback_url = callback, after the cursor section
SubscribedUrl(d, cb) == cb

Idle == [state |-> "idle", callback |-> None, status |-> 0, body |-> ""]

\* a GET /subscribe reaches the WSGI server of push device d
SubReceive(d, cb) ==
    /\ d \in devices
    /\ IsPush(d)
    /\ sub[d].state # "received"
    /\ nsub < MaxSubscribes
    /\ nsub' = nsub + 1
    /\ sub' = [sub EXCEPT ![d] = [Idle EXCEPT !.state = "received", !.callback = cb]]
    /\ UNCHANGED <<devices, restVars, storeVars, callback_url, lastSub, pc, data, local,
                   conn, deliv, conns, returned, nreq, nfault, nconn>>

\* subscribe(): the view function, from the checks to the response.  `at`
\* is the statement a "statement" fault hits: 1 the DELETE, 2 the INSERT
SubHandle(d, fault, at) ==
    /\ sub[d].state = "received"
    /\ FaultAllowed(fault)
    /\ at = 2 => fault = "statement"
    /\ LET cb == sub[d].callback
           chk == CheckCallback(cb)
           body == IF fault = "statement" /\ at = 1 THEN tx[d]
                   ELSE IF fault = "statement"
                   THEN [tx[d] EXCEPT !.subscription = <<>>]
                   ELSE [tx[d] EXCEPT !.subscription = <<cb>>]
           x == CursorExit(d, body, fault = "statement", fault)
       IN  IF chk # "ok"
           THEN /\ fault = "none"
                /\ sub' = [sub EXCEPT ![d].state = "answered",
                                      ![d].status = 400, ![d].body = chk]
                /\ UNCHANGED <<storeVars, callback_url, lastSub, nfault>>
           ELSE /\ ~Locked(lock_db[d])
                /\ db' = [db EXCEPT ![d] = x.db]
                /\ tx' = [tx EXCEPT ![d] = x.tx]
                /\ lock_db' = [lock_db EXCEPT ![d] = x.lock]
                /\ CountFault(fault)
                /\ IF x.raised
                   THEN /\ sub' = [sub EXCEPT ![d].state = "answered",
                                              ![d].status = 500]
                        /\ UNCHANGED <<callback_url, lastSub>>
                   ELSE /\ callback_url' =
                               [callback_url EXCEPT ![d] = SubscribedUrl(d, cb)]
                        /\ lastSub' = [lastSub EXCEPT ![d] = cb]
                        /\ sub' = [sub EXCEPT ![d].state = "answered",
                                              ![d].status = 200, ![d].body = "OK"]
    /\ UNCHANGED <<devices, restVars, pc, data, local, conn, deliv, conns, returned,
                   nreq, nsub, nconn>>

(* ------------------- CustomEventProtoDevice.serve ---------------------- *)
\* CREATE TABLE events (id ..., ts integer, value text); the index on
\* events(ts) is named time
EventsColumns == {"id", "ts", "value"}
\* SELECT id, ts, value FROM events WHERE time >= ? ORDER BY ts
WhereColumn == "time"
OrderColumn == "ts"

RECURSIVE InsertSorted(_, _, _)
InsertSorted(r, sorted, col) ==
    IF sorted = <<>> THEN <<r>>
    ELSE IF r[col] < Head(sorted)[col] THEN <<r>> \o sorted
    ELSE <<Head(sorted)>> \o InsertSorted(r, Tail(sorted), col)

RECURSIVE SortBy(_, _)
\* rows in ascending order of column col, rows with equal keys in rowid order
SortBy(rows, col) ==
    IF rows = <<>> THEN <<>>
    ELSE InsertSorted(rows[Len(rows)], SortBy(SubSeq(rows, 1, Len(rows) - 1), col), col)

\* c.execute(SELECT ...); c.fetchall().  sqlite resolves the column names
\* when it compiles the statement: a name that is no column of events makes
\* execute raise OperationalError (no such column), whatever the rows are
SelectEvents(rows, bound) ==
    IF WhereColumn \notin EventsColumns \/ OrderColumn \notin EventsColumns
    THEN [ok |-> FALSE, rows |-> <<>>]
    ELSE [ok |-> TRUE,
          rows |-> SortBy(SelectSeq(rows, LAMBDA r : r[WhereColumn] >= bound),
                          OrderColumn)]

Item(f, n) == [f |-> f, n |-> n]

RECURSIVE EncodeRows(_, _)
\* the for loop of the reply: per row id(8), ts(8), the length field and the
\* value bytes (n: how many).  A float is announced as 8 bytes and sent as
\* the 4 bytes of struct.pack('f').  self._value raising ends the loop
EncodeRows(type, rows) ==
    IF rows = <<>> THEN [out |-> <<>>, raised |-> FALSE]
    ELSE LET r == Head(rows)
             v == ValueOf(type, r.value)
             len == IF v.type = "str" THEN Utf8Len(r.value) ELSE 8
             sent == IF v.type = "float" THEN 4 ELSE len
             rest == EncodeRows(type, Tail(rows))
         IN  IF ~v.ok THEN [out |-> <<>>, raised |-> TRUE]
             ELSE [out |-> <<Item("id", r.id), Item("ts", r.ts),
                             Item("len", len), Item("value", sent)>> \o rest.out,
                   raised |-> rest.raised]

\* the "Reply" part of serve: the cursor section with the SELECT and the
\* sends.  [out]: what was sent before the connection was closed
QueryReply(d, bound) ==
    LET q == SelectEvents(tx[d].events, bound)
        enc == EncodeRows(DeviceType[d], q.rows)
        head == <<Item("magic", 0), Item("count", Len(q.rows))>>
    IN  IF ~q.ok THEN [out |-> <<>>, raised |-> TRUE]
        ELSE IF enc.raised THEN [out |-> head \o enc.out, raised |-> TRUE]
        ELSE [out |-> head \o enc.out \o <<Item("term", 0)>>, raised |-> FALSE]

\* bounds a collector asks for
QueryBounds == {0, 2, 256}
BadMagic == <<222, 173, 190, 238>>
\* what a client writes on a connection, and whether it then shuts its side
\* down (eof) or keeps the connection open and silent
ClientBytes ==
    {MAGIC \o ToBytes(b, 8) \o <<0>> : b \in QueryBounds}
    \cup {MAGIC \o ToBytes(b, 8) : b \in QueryBounds}
    \cup {MAGIC \o ToBytes(2, 8) \o <<1>>,
          BadMagic \o ToBytes(2, 8) \o <<0>>,
          <<222, 173>>}

Min(a, b) == IF a < b THEN a ELSE b

\* conn.recv(n) under settimeout(3): up to n of the bytes that have arrived
\* (a stream socket may return fewer than asked for), b'' at end of stream,
\* socket.timeout when nothing arrives
Recv(buf, eof, n) ==
    IF buf # <<>>
    THEN {[kind |-> "data", bytes |-> SubSeq(buf, 1, k),
           rest |-> SubSeq(buf, k + 1, Len(buf))] : k \in 1 .. Min(n, Len(buf))}
    ELSE IF eof THEN {[kind |-> "data", bytes |-> <<>>, rest |-> <<>>]}
    ELSE {[kind |-> "timeout", bytes |-> <<>>, rest |-> <<>>]}

Conns == 1 .. MaxConns
NoConn == [st |-> "none", dev |-> "", inbuf |-> <<>>, eof |-> FALSE,
           sent |-> <<>>, timestamp |-> 0, out |-> <<>>, queried |-> FALSE,
           why |-> ""]

\* conn.close() and the return of serve: its locals are gone
Close(c, why) ==
    conns' = [conns EXCEPT ![c].st = "closed", ![c].why = why,
                           ![c].inbuf = <<>>, ![c].timestamp = 0]

\* run: accept, then executor_pool.apply_async(self.serve, ...)
Connect(c, d, bytes, eof) ==
    /\ d \in devices
    /\ IsPull(d)
    /\ conns[c].st \in {"none", "closed"}
    /\ nconn < MaxAccepts
    /\ nconn' = nconn + 1
    /\ conns' = [conns EXCEPT ![c] = [NoConn EXCEPT !.st = "magic", !.dev = d,
                                        !.inbuf = bytes, !.eof = eof,
                                        !.sent = bytes]]
    /\ UNCHANGED <<devices, restVars, storeVars, pushVars, pc, data, local, conn, deliv,
                   returned, nreq, nfault>>

\* magic_number = conn.recv(4)
ServeMagic(c) ==
    /\ conns[c].st = "magic"
    /\ \E r \in Recv(conns[c].inbuf, conns[c].eof, 4) :
          IF r.kind = "timeout" THEN Close(c, "timeout")
          ELSE IF r.bytes # MAGIC THEN Close(c, "protocol")
          ELSE conns' = [conns EXCEPT ![c].st = "ts", ![c].inbuf = r.rest]
    /\ UNCHANGED <<devices, restVars, storeVars, pushVars, pc, data, local, conn, deliv,
                   returned, nreq, nfault, nconn>>

\* timestamp_b = conn.recv(8); timestamp = int.from_bytes(timestamp_b, 'big')
ServeTs(c) ==
    /\ conns[c].st = "ts"
    /\ \E r \in Recv(conns[c].inbuf, conns[c].eof, 8) :
          IF r.kind = "timeout" THEN Close(c, "timeout")
          ELSE conns' = [conns EXCEPT ![c].st = "term", ![c].inbuf = r.rest,
                                      ![c].timestamp = FromBytes(r.bytes)]
    /\ UNCHANGED <<devices, restVars, storeVars, pushVars, pc, data, local, conn, deliv,
                   returned, nreq, nfault, nconn>>

\* term = conn.recv(1), and on b'\0' the reply: the cursor section, whose
\* commit on a normal exit makes the pending writes of the connection durable
ServeTerm(c) ==
    /\ conns[c].st = "term"
    /\ \E r \in Recv(conns[c].inbuf, conns[c].eof, 1) :
          LET d == conns[c].dev
              q == QueryReply(d, conns[c].timestamp)
              x == CursorExit(d, tx[d], q.raised, "none")
          IN  IF r.kind = "timeout"
              THEN Close(c, "timeout") /\ UNCHANGED storeVars
              ELSE IF r.bytes # <<0>>
              THEN Close(c, "protocol") /\ UNCHANGED storeVars
              ELSE /\ ~Locked(lock_db[d])
                   /\ lock_db' = [lock_db EXCEPT ![d] = x.lock]
                   /\ conns' = [conns EXCEPT
                                  ![c].st = "closed", ![c].inbuf = <<>>,
                                  ![c].timestamp = 0,
                                  ![c].queried = TRUE, ![c].out = q.out,
                                  ![c].why = IF q.raised THEN "exception"
                                             ELSE "done"]
                   /\ db' = [db EXCEPT ![d] = x.db]
                   /\ tx' = [tx EXCEPT ![d] = x.tx]
    /\ UNCHANGED <<devices, restVars, pushVars, pc, data, local, conn, deliv, returned,
                   nreq, nfault, nconn>>

(* ------------------------------ listen.py ------------------------------ *)
\* Greenlet.spawn(runner, device.run, ...) for every device, and
\* Greenlet.spawn(runner, event_listener.run, 'event listener')
EventListener == "event listener"
TaskNames == Names \cup {EventListener}

\* the task is in f_run()
Running(t) == tasks[t] = "running"
\* no runner has called sys.exit
ProcessUp == \A t \in TaskNames : tasks[t] \in {"none", "running"}

\* runner: f_run() returned (log 'stopped. Exiting') or raised (log the
\* exception); both ways go to sys.exit(255).  SystemExit is not an
\* Exception, so nothing in runner catches it and `while True` never
\* turns; gevent's hub throws a SystemExit raised in a greenlet into the
\* main greenlet, which leaves joinall (only KeyboardInterrupt is caught
\* there) and ends the process: every other greenlet stops with it.
RunnerExit(t, how) ==
    /\ Running(t)
    /\ t = EventListener => pc = "accept"
    /\ tasks' = [u \in TaskNames |->
                   IF u = t THEN how
                   ELSE IF tasks[u] = "running" THEN "stopped" ELSE tasks[u]]
    /\ UNCHANGED <<devices, storeVars, pushVars, pc, data, local, conn, deliv,
                   conns, returned, nreq, nfault, nconn, waiting, pool>>

(* --------------------- CustomEventProtoDevice.run: the pool ------------ *)
\* connections a pull device accepts in one behaviour of the pool
MaxPoolConns == 11
PoolConns == 1 .. MaxPoolConns
\* self.executor_pool = Pool(10)
PoolSize == 10

NoPool == [accepted |-> 0,
           st |-> [c \in PoolConns |-> "none"],
           starts |-> [c \in PoolConns |-> 0]]

\* greenlets of the pool that run serve
InService == {c \in PoolConns : pool.st[c] = "serving"}

\* a pool that lets one greenlet more in
PoolFullLate(n) == n > PoolSize
\* Pool.full(): free_count() <= 0
PoolFull(n) == n >= PoolSize

\* serve starts for connection c in a greenlet of the pool
StartServe(c) ==
    [pool EXCEPT !.st[c] = "serving", !.starts[c] = @ + 1]

\* run: connection, client_address = self.sock.accept(), then
\* executor_pool.apply_async(self.serve, ...): with a free slot the pool
\* spawns serve; when it is full apply_async spawns a greenlet outside the
\* pool that waits for a slot, and returns to the accept loop
PoolAccept ==
    /\ pool.accepted < MaxPoolConns
    /\ LET c == pool.accepted + 1
       IN  pool' = IF PoolFull(Cardinality(InService))
                   THEN [pool EXCEPT !.accepted = c, !.st[c] = "queued"]
                   ELSE [StartServe(c) EXCEPT !.accepted = c]
    /\ UNCHANGED <<devices, storeVars, pushVars, pc, data, local, conn, deliv,
                   conns, returned, nreq, nfault, nconn, tasks, waiting>>

\* a slot is free: the greenlet waiting in Pool.spawn gets it and starts serve
PoolAdmit(c) ==
    /\ pool.st[c] = "queued"
    /\ ~PoolFull(Cardinality(InService))
    /\ pool' = StartServe(c)
    /\ UNCHANGED <<devices, storeVars, pushVars, pc, data, local, conn, deliv,
                   conns, returned, nreq, nfault, nconn, tasks, waiting>>

\* serve returns or raises: its greenlet is discarded from the pool
PoolServeEnd(c) ==
    /\ pool.st[c] = "serving"
    /\ pool' = [pool EXCEPT !.st[c] = "done"]
    /\ UNCHANGED <<devices, storeVars, pushVars, pc, data, local, conn, deliv,
                   conns, returned, nreq, nfault, nconn, tasks, waiting>>

(* ------------------------------ behaviours ----------------------------- *)
\* the state after the constructors: an empty store, or the subscription a
\* previous run of a push device left in its file (WebhookDevice.__init__)
InitWith(devs) ==
    /\ devices = devs
    /\ \E u \in {None, U1} :
         /\ db = [d \in Names |->
                    IF d \in devs /\ IsPush(d) /\ u # None
                    THEN [EmptyTables EXCEPT !.subscription = <<u>>]
                    ELSE EmptyTables]
         /\ callback_url = [d \in Names |->
                              IF d \in devs /\ IsPush(d) THEN u ELSE None]
    /\ tx = db
    /\ lastSub = callback_url
    /\ sub = [d \in Names |-> Idle]
    /\ pc = "accept"
    /\ data = NoData
    /\ local = NoLocal
    /\ conn = [state |-> "none", replies |-> <<>>]
    /\ deliv = NoDeliv
    /\ conns = [c \in Conns |-> NoConn]
    /\ returned = [d \in Names |-> <<>>]
    /\ nreq = 0
    /\ nfault = 0
    /\ nsub = 0
    /\ nconn = 0
    /\ lock_db = [d \in Names |-> SemFree]
    /\ tasks = [t \in TaskNames |->
                  IF t \in devs \cup {EventListener} THEN "running" ELSE "none"]
    /\ waiting = NoData
    /\ pool = NoPool

Dispatcher ==
    \/ \E req \in Requests : DispAccept(req)
    \/ DispReject

PullDevice ==
    \/ \E fault \in Faults : DispPullEvent(fault)
    \/ \E c \in Conns, d \in Names, b \in ClientBytes, eof \in BOOLEAN :
          Connect(c, d, b, eof)
    \/ \E c \in Conns : ServeMagic(c)
    \/ \E c \in Conns : ServeTs(c)
    \/ \E c \in Conns : ServeTerm(c)

PushDevice ==
    \/ \E fault \in Faults : DispPushEvent(fault)
    \/ \E outcome \in PostOutcomes : DispPost(outcome)
    \/ DispWake
    \/ \E d \in Names, cb \in CallbackArgs : SubReceive(d, cb)
    \/ \E d \in Names, fault \in Faults, at \in {1, 2} : SubHandle(d, fault, at)

Init == InitWith(Names)
Next == Dispatcher \/ PullDevice \/ PushDevice
Spec == Init /\ [][Next]_vars

\* a configuration with the pull device alone
InitPull == InitWith({"temp"})
NextPull == Dispatcher \/ PullDevice
SpecPull == InitPull /\ [][NextPull]_vars

\* the pull device and the dispatcher under the runner of listen.py
NextSup ==
    \/ \E req \in Requests : Running(EventListener) /\ DispAccept(req)
    \/ Running(EventListener) /\ DispReject
    \/ \E fault \in Faults : Running(EventListener) /\ DispPullEvent(fault)
    \/ \E c \in Conns, d \in Names, b \in ClientBytes, eof \in BOOLEAN :
          Running(d) /\ Connect(c, d, b, eof)
    \/ \E c \in Conns : ProcessUp /\ ServeMagic(c)
    \/ \E c \in Conns : ProcessUp /\ ServeTs(c)
    \/ \E c \in Conns : ProcessUp /\ ServeTerm(c)
    \/ \E t \in TaskNames, how \in {"returned", "raised"} : RunnerExit(t, how)
SpecSup == InitPull /\ [][NextSup]_vars

\* the accept loop of the pull device and its pool
NextPool ==
    \/ PoolAccept
    \/ \E c \in PoolConns : PoolAdmit(c)
    \/ \E c \in PoolConns : PoolServeEnd(c)
SpecPool == InitPull /\ [][NextPool]_vars
FairSpecPool ==
    /\ SpecPool
    /\ WF_vars(\E c \in PoolConns : PoolAdmit(c))
    /\ WF_vars(\E c \in PoolConns : PoolServeEnd(c))

\* both devices and the control plane: the clients of the event socket
\* connect when they like, no collector connects and nobody subscribes
NextPlane ==
    \/ \E req \in WellFormed : ClientConnect(req)
    \/ DispAcceptQueued
    \/ DispReject
    \/ \E fault \in Faults : DispPullEvent(fault)
    \/ \E fault \in Faults : DispPushEvent(fault)
    \/ \E outcome \in PostOutcomes : DispPost(outcome)
    \/ DispWake
SpecPlane == Init /\ [][NextPlane]_vars

\* both devices, with every operation that enters a cursor section: an
\* insert, a query, a subscribe write and an id allocation
LockRequests == {Payload("temp", 1, "250", {"retries"}, 0),
                 Payload("end", 1, "press", {}, 1)}
NextLock ==
    \/ \E req \in LockRequests : DispAccept(req)
    \/ \E fault \in Faults : DispPullEvent(fault)
    \/ \E fault \in Faults : DispPushEvent(fault)
    \/ \E outcome \in PostOutcomes : DispPost(outcome)
    \/ DispWake
    \/ \E c \in Conns, d \in Names, eof \in BOOLEAN :
          Connect(c, d, MAGIC \o ToBytes(0, 8) \o <<0>>, eof)
    \/ \E c \in Conns : ServeMagic(c)
    \/ \E c \in Conns : ServeTs(c)
    \/ \E c \in Conns : ServeTerm(c)
    \/ \E d \in Names : SubReceive(d, U2)
    \/ \E d \in Names, fault \in Faults, at \in {1, 2} : SubHandle(d, fault, at)
SpecLock == Init /\ [][NextLock]_vars

\* a configuration with the push device alone
InitPush == InitWith({"end"})
NextPush == Dispatcher \/ PushDevice
SpecPush == InitPush /\ [][NextPush]_vars

(* ================================ claims =============================== *)
PullNames == {d \in Names : IsPull(d)}
PushNames == {d \in Names : IsPush(d)}

\* C1: the ids the successful event() calls on a pull device return are
\* 1, 2, 3, ... in call order, also when some call failed in the cursor
\* section (a failed call consumes no id).
C1_IdsCountFromOne ==
    \A d \in PullNames :
        \A i \in 1 .. Len(returned[d]) : returned[d][i] = i

\* the rows with ts >= bound in ascending (ts, id) order, as a set of
\* positions: row r comes k-th when k - 1 matching rows sort before it
RowsFrom(rows, bound) == {r \in {rows[i] : i \in DOMAIN rows} : r.ts >= bound}
Rank(r, S) ==
    1 + Cardinality({q \in S : q.ts < r.ts \/ (q.ts = r.ts /\ q.id < r.id)})
\* the ids of the event records of a reply, in the order sent
IdsOf(out) == SelectSeq(out, LAMBDA it : it.f = "id")
IsAnswer(out, rows, bound) ==
    LET S == RowsFrom(rows, bound)
        ids == IdsOf(out)
    IN  /\ Len(ids) = Cardinality(S)
        /\ \A r \in S : ids[Rank(r, S)].n = r.id

\* C2: the query the server runs returns exactly the stored events with
\* ts >= bound, ascending by ts and by id among equal ts.  (The result is
\* then a function of the store and the bound, which is the claim's second
\* half: the same bound on an unchanged store gives the same sequence.)
C2_QueryReturnsMatching ==
    [][\A c \in Conns :
          (~conns[c].queried /\ conns'[c].queried) =>
              /\ conns'[c].why = "done"
              /\ IsAnswer(conns'[c].out, tx[conns[c].dev].events,
                          conns[c].timestamp)]_vars

\* the raw value is in the domain of the device kind (its _value returns)
InDomain(d, raw) == ValueOf(DeviceType[d], raw).ok
LastReply == conn.replies[Len(conn.replies)]

\* C3: an ingestion whose raw value is outside the domain of the device
\* kind is answered {error}; it stores nothing, delivers nothing and
\* consumes no id.
C3_OutOfDomainRejected ==
    [][(/\ pc = "serve"
        /\ Validate(data) = "ok"
        /\ KnownDevice(data.dev_name)
        /\ ~InDomain(data.dev_name, data.value)
        /\ pc' # "serve")
       => /\ pc' = "accept"
          /\ conn'.replies # <<>>
          /\ conn'.replies[Len(conn'.replies)].kind = "error"
          /\ UNCHANGED <<db, tx, returned>>]_vars

\* a POST that fails, as the claims count it: a transport error or a
\* response whose status is not 2xx
FailedPost == {"3xx", "4xx", "transport"}

\* C4: attempts and delays of one event() call on a push device whose
\* retries argument is n >= 0: while every POST fails (transport error or
\* non-2xx response) the call makes one
\* attempt per unit of budget and sleeps RetryDelay between two attempts;
\* it raises the delivery error, with the reason of the last failure, after
\* exactly n + 1 attempts and n delays; a POST that succeeds is the last.
C4_RetryBudget ==
    (deliv.result # "none" /\ deliv.n >= 0) =>
        /\ deliv.attempts <= deliv.n + 1
        /\ deliv.slept = RetryDelay * deliv.sleeps
        /\ pc = "post" => /\ deliv.sleeps = deliv.attempts
                          /\ local.retries = deliv.n - deliv.sleeps
        /\ pc = "sleep" => /\ deliv.sleeps = deliv.attempts - 1
                           /\ deliv.last \in FailedPost
        /\ deliv.result = "failed" =>
              /\ deliv.attempts = deliv.n + 1
              /\ deliv.sleeps = deliv.n
              /\ deliv.last \in FailedPost
              /\ conn.state = "closed"
              /\ conn.replies = <<ErrorReply(deliv.last)>>
        /\ deliv.result = "delivered" =>
              /\ deliv.last \notin FailedPost
              /\ deliv.sleeps = deliv.attempts - 1
              /\ pc = "accept"
        /\ deliv.result = "running" => pc \in {"post", "sleep"}

\* the request a collector must send: magic, 8 bytes, the 0x00 terminator
WellFormedQuery(b) == Len(b) = 13 /\ SubSeq(b, 1, 4) = MAGIC /\ b[13] = 0

\* C5: on a connection whose request has a wrong magic or a missing or
\* non-zero terminator, or stalls before it is complete, the server writes
\* no byte of reply and does not query the store.
C5_MalformedGetsNothing ==
    \A c \in Conns :
        (conns[c].st # "none" /\ ~WellFormedQuery(conns[c].sent)) =>
            /\ conns[c].out = <<>>
            /\ ~conns[c].queried

\* magic, count, count records (id, ts, length, as many value bytes as the
\* length says), one 0x00
CompleteReply(out) ==
    /\ Len(out) >= 3
    /\ out[1].f = "magic"
    /\ out[2].f = "count"
    /\ Len(out) = 3 + 4 * out[2].n
    /\ out[Len(out)].f = "term"
    /\ \A k \in 0 .. out[2].n - 1 :
          /\ out[3 + 4 * k].f = "id"
          /\ out[4 + 4 * k].f = "ts"
          /\ out[5 + 4 * k].f = "len"
          /\ out[6 + 4 * k].f = "value"
          /\ out[5 + 4 * k].n = out[6 + 4 * k].n

C7_LatestCallbackOnly ==
    /\ \A d \in PushNames :
          /\ Len(db[d].subscription) <= 1
          /\ Len(tx[d].subscription) <= 1
    /\ deliv.attempts > 0 => deliv.url = deliv.subscribed

\* a delivery whose first POST went to U1 retries to U2 after a subscribe
C7_Witness ==
    /\ deliv.attempts >= 2
    /\ deliv.first = U1
    /\ deliv.url = U2
    /\ \E d \in PushNames : db[d].subscription = <<U2>>

\* the callback is present and its URL has a scheme and a host
HasSchemeAndHost(cb) == cb \in {U1, U2}
Answered(d) == sub[d].state = "received" /\ sub'[d].state = "answered"
Rejected400(d) ==
    /\ sub'[d].status = 400
    /\ callback_url'[d] = callback_url[d]
    /\ db'[d] = db[d]
    /\ tx'[d] = tx[d]
Accepted200(d) ==
    /\ sub'[d].status = 200
    /\ sub'[d].body = "OK"
    /\ callback_url'[d] = sub[d].callback
    /\ db'[d].subscription = <<sub[d].callback>>
    /\ tx'[d].subscription = <<sub[d].callback>>

C9_UnknownDeviceUntouched ==
    [][(/\ pc = "serve"
        /\ Validate(data) = "ok"
        /\ data.dev_name \notin devices
        /\ pc' # "serve")
       => /\ pc' = "accept"
          /\ conn' = [state |-> "closed",
                      replies |-> <<ErrorReply("Unknown device")>>]
          /\ UNCHANGED <<db, tx, callback_url, sub, returned, deliv, nfault>>]_vars

\* the reply to a request for device "ghost", with a subscription in store
C9_Witness ==
    /\ conn.state = "closed"
    /\ conn.replies = <<ErrorReply("Unknown device")>>
    /\ pc = "accept"
    /\ \E d \in PushNames : db[d].subscription # <<>>

\* the steps of the dispatcher greenlet after it has read a request
DispStep ==
    \/ DispReject
    \/ \E fault \in Faults : DispPullEvent(fault)
    \/ \E fault \in Faults : DispPushEvent(fault)
    \/ \E outcome \in PostOutcomes : DispPost(outcome)
    \/ DispWake

\* the hub runs the dispatcher greenlet whenever it can take a step (every
\* POST returns, every sleep ends)
FairSpecPush == SpecPush /\ WF_vars(DispStep)

\* C10: every control-plane connection gets exactly one reply, {id} or
\* {error}, is then closed, and the dispatcher is back at accept.
C10_ExactlyOneReply ==
    /\ [](conn.state = "closed" =>
              /\ Len(conn.replies) = 1
              /\ conn.replies[1].kind \in {"id", "error"})
    /\ (conn.state = "open") ~>
           (conn.state = "closed" /\ Len(conn.replies) = 1 /\ pc = "accept")

\* C11: when one supervised task exits, by returning or by raising, only
\* that task stops: every other task that was started is still running or
\* has exited by itself, and the task that exited is not running again.
C11_OnlyExitedTaskStops ==
    [][\A t \in TaskNames :
          (Running(t) /\ ~Running(t)') =>
              /\ tasks'[t] \in {"returned", "raised"}
              /\ \A u \in TaskNames \ {t} : tasks'[u] = tasks[u]]_vars
      /\ [][\A t \in TaskNames : ~Running(t) => ~Running(t)']_vars

\* the dispatcher is inside the send loop of event() of push device d: in
\* requests.post or in sleep(5)
Delivering(d) == pc \in {"post", "sleep"} /\ data.dev_name = d

\* C12: an event injected for device A completes without waiting for a
\* webhook delivery in progress on another device B to finish: while a
\* request for A waits at the event socket and a delivery on B is going
\* on, the dispatcher can accept the request.
C12_NoCrossDeviceWait ==
    \A a \in Names :
        (/\ waiting # NoData
         /\ waiting.dev_name = a
         /\ \E b \in Names \ {a} : Delivering(b))
        => ENABLED DispAcceptQueued

\* C13: on every push device the ids event() returns are strictly
\* increasing in call order, and the counter persisted in the event_id
\* table is the last id assigned.
C13_PushIdsIncrease ==
    \A d \in PushNames :
        /\ \A i, j \in 1 .. Len(returned[d]) :
              i < j => returned[d][i] < returned[d][j]
        /\ returned[d] # <<>> =>
              db[d].event_id = <<returned[d][Len(returned[d])]>>

\* C14: an ingestion into a push device without subscription fails at once
\* with the no-subscription error: no POST, no delay whatever the retries
\* argument, no cursor section (no id consumed), and the dispatcher answers
\* {error} and is back at accept.
C14_NoSubscriptionFailsAtOnce ==
    [][(/\ pc = "serve"
        /\ Validate(data) = "ok"
        /\ data.dev_name \in devices \cap PushNames
        /\ callback_url[data.dev_name] = None
        /\ pc' # "serve")
       => /\ pc' = "accept"
          /\ conn' = [state |-> "closed",
                      replies |-> <<ErrorReply("No subscriptions")>>]
          /\ deliv'.attempts = 0
          /\ deliv'.sleeps = 0
          /\ UNCHANGED <<db, tx, lock_db, returned, nfault, callback_url>>]_vars

\* the reply to an injection into the push device that nobody subscribed to
C14_Witness ==
    /\ conn.state = "closed"
    /\ conn.replies = <<ErrorReply("No subscriptions")>>
    /\ pc = "accept"
    /\ deliv = NoDeliv
    /\ \E d \in devices \cap PushNames :
          callback_url[d] = None /\ tx[d] = EmptyTables

\* C15: the dispatcher sends {id} for an injection into a push device only
\* after a POST returned a 2xx response, {id} for one into a pull device
\* only after the event with that id, timestamp and value is committed, and
\* no reply while the delivery is retrying.
C15_ReplyAfterDelivery ==
    /\ [][(/\ Len(conn'.replies) = Len(conn.replies) + 1
           /\ conn'.replies[Len(conn'.replies)].kind = "id")
          => LET d == data.dev_name
                 id == conn'.replies[Len(conn'.replies)].id
             IN  IF d \in PushNames
                 THEN /\ deliv'.attempts >= 1
                      /\ deliv'.last = "2xx"
                      /\ id = local.event_id
                 ELSE \E i \in 1 .. Len(db'[d].events) :
                         db'[d].events[i] =
                            [id |-> id, ts |-> data.ts, value |-> data.value]]_vars
    /\ [](pc \in {"post", "sleep"} => conn.replies = <<>>)

\* C16: the locked sections of a device do not overlap and the lock is
\* free after every exit from a section, be it a normal return, an
\* exception in the body or a failed commit: a section is entered and left
\* within one step of its greenlet, so between any two steps the semaphore
\* of every device is free and a step holds it for one operation only.
C16_LockFreeAfterExit ==
    /\ [](\A d \in Names : lock_db[d] = SemFree)
    /\ [][\A d \in Names :
             (db'[d] # db[d] \/ tx'[d] # tx[d]) =>
                 /\ ~Locked(lock_db[d])
                 /\ \A e \in Names \ {d} : db'[e] = db[e] /\ tx'[e] = tx[e]]_vars

\* an insert returned, a query raised in its section, a store fault hit a
\* section of the push device, which allocated an id: every lock is free
C16_Witness ==
    /\ \A d \in Names : lock_db[d] = SemFree
    /\ nfault = MaxFaults
    /\ \E d \in PullNames : returned[d] # <<>>
    /\ \E c \in Conns : conns[c].queried /\ conns[c].why = "exception"
    /\ \E d \in PushNames : sub[d].status = 500
    /\ deliv.attempts > 0

\* C17: at most PoolSize connections of the pull device are inside serve;
\* a connection accepted while PoolSize are in service waits (the accept
\* loop goes on) and is served once a worker is free; an accepted
\* connection is never dropped and never served twice.
C17_PoolBound ==
    /\ [](Cardinality(InService) <= PoolSize)
    /\ [](\A c \in PoolConns :
             /\ pool.starts[c] <= 1
             /\ c <= pool.accepted <=> pool.st[c] # "none"
             /\ pool.st[c] \in {"serving", "done"} <=> pool.starts[c] = 1)
    /\ [][(/\ pool'.accepted = pool.accepted + 1
           /\ Cardinality(InService) = PoolSize)
          => pool'.st[pool'.accepted] = "queued"]_vars
    /\ \A c \in PoolConns :
          (pool.st[c] = "queued") ~> (pool.st[c] = "serving")

\* ten connections in service and the eleventh, accepted, waits
C17_Witness ==
    /\ Cardinality(InService) = PoolSize
    /\ pool.accepted = PoolSize + 1
    /\ pool.st[PoolSize + 1] = "queued"

\* C18: an operation that failed inside a cursor section did not happen:
\* the rows committed in a pull device's store are those of the event()
\* calls that returned, and the subscription committed in a push device's
\* store is that of the last subscribe answered 200, also after a later
\* operation on the device has committed.
C18_FailedWritesVanish ==
    /\ \A d \in PullNames :
          \A i \in 1 .. Len(db[d].events) :
              \E j \in 1 .. Len(returned[d]) :
                  returned[d][j] = db[d].events[i].id
    /\ \A d \in PushNames :
          db[d].subscription =
              IF lastSub[d] = None THEN <<>> ELSE <<lastSub[d]>>

\* C19: the server goes on to the reply (the query and the bytes after it)
\* only when the bytes the client sent are exactly the magic, 8 bytes of
\* timestamp and 0x00, and then the bound of its query is the big-endian
\* value of those 8 bytes, however the bytes are split on arrival.
C19_ExactRequest ==
    [][\A c \in Conns :
          (~conns[c].queried /\ conns'[c].queried) =>
              /\ WellFormedQuery(conns[c].sent)
              /\ conns[c].timestamp = FromBytes(SubSeq(conns[c].sent, 5, 12))]_vars

\* C20: whatever integer the request carries as retries, an event() call
\* on a push device ends, delivered or failed, and the dispatcher replies
\* and is back at accept for the next request.
C20_DeliveryTerminates ==
    (deliv.result = "running") ~>
        (deliv.result \in {"delivered", "failed"} /\ pc = "accept"
         /\ conn.state = "closed")

\* The sends of serve stand inside its `with self.cursor()` section, after
\* the SELECT.  The SELECT raises on every store, so no worker of the pull
\* device gets to the first conn.send: a connection is closed with no byte
\* of reply, and the section it entered is left within the same step.
NoReplyByteWritten ==
    \A c \in Conns :
        /\ conns[c].out = <<>>
        /\ conns[c].queried => conns[c].why = "exception"
        /\ conns[c].st # "none" => lock_db[conns[c].dev] = SemFree

====
